---- MODULE Spec2Model ----
(***************************************************************************)
(* A model of restkit's MultiDict (src/restkit/datastructures.py) and of   *)
(* the restclient facade: make_uri, RestClient.make_request and Resource   *)
(* (src/restclient/rest.py).                                               *)
(*                                                                         *)
(* Python strings are sequences of one-character strings, so that strip,   *)
(* endswith, lower and percent-encoding are computed character by          *)
(* character.  A call that raises is an outcome record whose exc field     *)
(* names the exception class; exc = "none" is a normal return.             *)
(***************************************************************************)
EXTENDS Integers, Sequences, FiniteSets, TLC

VARIABLES
    items,      \* MultiDict._items: the list of (key, value) pairs
    last,       \* the last MultiDict call: its arguments, the list before it, its outcome
    mu,         \* one make_uri evaluation: its arguments and its outcome
    req,        \* one RestClient.make_request call: its arguments, the transport's reply, its outcome
    resources,  \* the Resource instances created so far, in creation order
    rlast,      \* the last Resource call: its arguments, the instances before it, its outcome
    heap,       \* list objects by identity, and which of them a list, a view and a copy refer to
    hlast       \* the last operation on the heap: its name, the object it was called on, the heap before it

vars == <<items, last, mu, req, resources, rlast, heap, hlast>>

\* Python's None, as a value, a default or a missing argument.
None == "None"

----------------------------------------------------------------------------
(* Bounds of the model *)

\* the longest _items list explored
MaxLen == 3
\* the longest source sequence handed to extend
MaxSrc == 2
\* the most path segments handed to make_uri
MaxPath == 2
\* the most query parameters handed to make_uri
MaxQuery == 2
\* the most Resource instances alive at once
MaxRes == 2
\* the longest Resource.uri explored
MaxUriLen == 3

----------------------------------------------------------------------------
(* Strings *)

\* str.lower() on one character, for the letters the keys are written with
LowerChar(c) ==
    CASE c = "A" -> "a"
      [] c = "B" -> "b"
      [] c = "C" -> "c"
      [] OTHER -> c

\* str.lower()
lower(s) == [i \in DOMAIN s |-> LowerChar(s[i])]

----------------------------------------------------------------------------
(* MultiDict *)

\* keys stored in the dict: two that differ only by case, and a third
Keys == { <<"A", "b">>, <<"a", "b">>, <<"c">> }
\* keys looked up: the stored ones and one more spelling that is never stored
LookupKeys == Keys \cup { <<"a", "B">> }
Values == { "v1", "v2" }
Pairs == { <<k, v>> : k \in Keys, v \in Values }
\* the pairs the sources of extend are made of
SrcPairs == { << <<"a", "b">>, "v1" >>, << <<"c">>, "v2" >> }
\* the default handed to pop and ipop
Default == "dflt"

RECURSIVE SeqsUpTo(_, _)
SeqsUpTo(S, n) ==
    IF n = 0 THEN { <<>> }
    ELSE LET shorter == SeqsUpTo(S, n - 1)
         IN  shorter \cup { Append(s, x) : s \in { t \in shorter : Len(t) = n - 1 }, x \in S }

\* del lst[i]
DelAt(lst, i) == SubSeq(lst, 1, i - 1) \o SubSeq(lst, i + 1, Len(lst))

\* the outcome of a MultiDict method: what it raised, what it returned, and _items after it
Outcome(exc, ret, its) == [exc |-> exc, ret |-> ret, items |-> its]

\* __getitem__: for k, v in reversed(self._items): the loop from position i down
RECURSIVE getitem_loop(_, _, _)
getitem_loop(its, key, i) ==
    IF i = 0 THEN Outcome("KeyError", None, its)
    ELSE IF its[i][1] = key THEN Outcome("none", its[i][2], its)
    ELSE getitem_loop(its, key, i - 1)

\* a lookup that scans from the front and so returns the first match
getitem_first(its, key) ==
    IF \E i \in DOMAIN its : its[i][1] = key
    THEN Outcome("none", its[CHOOSE i \in DOMAIN its :
                                /\ its[i][1] = key
                                /\ \A j \in 1..(i - 1) : its[j][1] /= key][2], its)
    ELSE Outcome("KeyError", None, its)

getitem(its, key) == getitem_loop(its, key, Len(its))

\* __delitem__: for i in range(len(items)-1, -1, -1): the loop from position i down
RECURSIVE delitem_loop(_, _, _, _)
delitem_loop(its, key, i, found) ==
    IF i = 0
    THEN IF found THEN Outcome("none", None, its) ELSE Outcome("KeyError", None, its)
    ELSE IF its[i][1] = key
         THEN delitem_loop(DelAt(its, i), key, i - 1, TRUE)
         ELSE delitem_loop(its, key, i - 1, found)

\* a deletion that walks forward and steps on after each removal, skipping the
\* entry that moved into the freed position
RECURSIVE delitem_forward_loop(_, _, _, _)
delitem_forward_loop(its, key, i, found) ==
    IF i > Len(its)
    THEN IF found THEN Outcome("none", None, its) ELSE Outcome("KeyError", None, its)
    ELSE IF its[i][1] = key
         THEN delitem_forward_loop(DelAt(its, i), key, i + 1, TRUE)
         ELSE delitem_forward_loop(its, key, i + 1, found)

delitem_forward(its, key) == delitem_forward_loop(its, key, 1, FALSE)

delitem(its, key) == delitem_loop(its, key, Len(its), FALSE)

\* an assignment that writes the new entry where the key's first entry was
setitem_in_place(its, key, value) ==
    IF \E i \in DOMAIN its : its[i][1] = key
    THEN LET p == CHOOSE i \in DOMAIN its :
                      its[i][1] = key /\ \A j \in DOMAIN its : its[j][1] = key => i <= j
             kept == [i \in DOMAIN its |-> IF i = p THEN <<key, value>> ELSE its[i]]
         IN  Outcome("none", None,
                     SelectSeq(kept, LAMBDA e : e[1] /= key \/ e = <<key, value>>))
    ELSE Outcome("none", None, Append(its, <<key, value>>))

\* an assignment that removes only the first entry of the key before appending
setitem_one(its, key, value) ==
    LET i == IF \E j \in DOMAIN its : its[j][1] = key
             THEN CHOOSE j \in DOMAIN its :
                      its[j][1] = key /\ \A h \in 1..(j - 1) : its[h][1] /= key
             ELSE 0
    IN  Outcome("none", None, Append(IF i = 0 THEN its ELSE DelAt(its, i), <<key, value>>))

\* __setitem__: del self[key], a KeyError swallowed, then append
setitem(its, key, value) ==
    LET d == delitem(its, key)
    IN  Outcome("none", None, Append(d.items, <<key, value>>))

\* add
\* an add that first removes the entries the key already has
add_overwrite(its, key, value) == setitem(its, key, value)

add(its, key, value) == Outcome("none", None, Append(its, <<key, value>>))

\* __len__: len(self._items)
len(its) == Len(its)

\* getall: the loop from position i up, result accumulated
RECURSIVE getall_loop(_, _, _, _)
getall_loop(its, key, i, result) ==
    IF i > Len(its) THEN result
    ELSE getall_loop(its, key, i + 1,
                     IF key = its[i][1] THEN Append(result, its[i][2]) ELSE result)

\* a getall that collects the matching values latest first
RECURSIVE getall_reversed_loop(_, _, _, _)
getall_reversed_loop(its, key, i, result) ==
    IF i > Len(its) THEN result
    ELSE getall_reversed_loop(its, key, i + 1,
                              IF key = its[i][1] THEN <<its[i][2]>> \o result ELSE result)
getall_reversed(its, key) == getall_reversed_loop(its, key, 1, <<>>)

getall(its, key) == getall_loop(its, key, 1, <<>>)

\* a getone that answers with the first value when several entries match
getone_first(its, key) ==
    IF getall(its, key) = <<>> THEN Outcome("KeyError", "Key not found", its)
    ELSE Outcome("none", getall(its, key)[1], its)

\* getone: both failures raise KeyError; ret holds the message's fixed text
getone(its, key) ==
    LET v == getall(its, key) IN
    IF v = <<>> THEN Outcome("KeyError", "Key not found", its)
    ELSE IF Len(v) > 1 THEN Outcome("KeyError", "Multiple values match", its)
    ELSE Outcome("none", v[1], its)

\* a dict built by mixed or dict_of_lists: a set of <<key, value>> with each key
\* once; a value is a single value or a list of values
One(v) == [list |-> FALSE, v |-> <<v>>]
Many(vs) == [list |-> TRUE, v |-> vs]
InDict(d, key) == \E e \in d : e[1] = key
DictGet(d, key) == (CHOOSE e \in d : e[1] = key)[2]
DictSet(d, key, val) == { e \in d : e[1] /= key } \cup { <<key, val>> }

\* dict_of_lists: r.setdefault(key, []).append(val), the loop from position i up
RECURSIVE dict_of_lists_loop(_, _, _)
dict_of_lists_loop(its, i, r) ==
    IF i > Len(its) THEN r
    ELSE LET key == its[i][1]
             old == IF InDict(r, key) THEN DictGet(r, key).v ELSE <<>>
         IN  dict_of_lists_loop(its, i + 1, DictSet(r, key, Many(Append(old, its[i][2]))))

dict_of_lists(its) == dict_of_lists_loop(its, 1, {})

\* a mixed that gives a list for every key
mixed_lists(its) == dict_of_lists(its)

\* mixed: the loop from position i up, with result and multi
RECURSIVE mixed_loop(_, _, _, _)
mixed_loop(its, i, result, multi) ==
    IF i > Len(its) THEN result
    ELSE LET key == its[i][1]
             value == its[i][2]
         IN  IF InDict(result, key)
             THEN IF key \in multi
                  THEN mixed_loop(its, i + 1,
                                  DictSet(result, key,
                                          Many(Append(DictGet(result, key).v, value))),
                                  multi)
                  ELSE mixed_loop(its, i + 1,
                                  DictSet(result, key,
                                          Many(<<DictGet(result, key).v[1], value>>)),
                                  multi \cup { key })
             ELSE mixed_loop(its, i + 1, DictSet(result, key, One(value)), multi)

mixed(its) == mixed_loop(its, 1, {}, {})

\* iget: for k, v in self._items: the loop from position i up
RECURSIVE iget_loop(_, _, _)
iget_loop(its, lkey, i) ==
    IF i > Len(its) THEN Outcome("none", None, its)
    ELSE IF lower(its[i][1]) = lkey THEN Outcome("none", its[i][2], its)
    ELSE iget_loop(its, lkey, i + 1)

iget(its, key) == iget_loop(its, lower(key), 1)

\* __contains__
RECURSIVE contains_loop(_, _, _)
contains_loop(its, key, i) ==
    IF i > Len(its) THEN FALSE
    ELSE IF its[i][1] = key THEN TRUE
    ELSE contains_loop(its, key, i + 1)

contains(its, key) == contains_loop(its, key, 1)

\* pop: for i in range(len(self._items)): the loop from position i up; args is () or (default,)
RECURSIVE pop_loop(_, _, _, _)
pop_loop(its, key, args, i) ==
    IF i > Len(its)
    THEN IF Len(args) > 0 THEN Outcome("none", args[1], its)
         ELSE Outcome("KeyError", None, its)
    ELSE IF its[i][1] = key THEN Outcome("none", its[i][2], DelAt(its, i))
    ELSE pop_loop(its, key, args, i + 1)

\* a pop that removes the last match instead of the first
pop_last(its, key, args) ==
    IF \E i \in DOMAIN its : its[i][1] = key
    THEN LET i == CHOOSE i \in DOMAIN its :
                      its[i][1] = key /\ \A j \in (i + 1)..Len(its) : its[j][1] /= key
         IN  Outcome("none", its[i][2], DelAt(its, i))
    ELSE IF Len(args) > 0 THEN Outcome("none", args[1], its)
    ELSE Outcome("KeyError", None, its)

pop(its, key, args) ==
    IF Len(args) > 1 THEN Outcome("TypeError", None, its)
    ELSE pop_loop(its, key, args, 1)

\* ipop: the same loop on lowercased keys
RECURSIVE ipop_loop(_, _, _, _)
ipop_loop(its, lkey, args, i) ==
    IF i > Len(its)
    THEN IF Len(args) > 0 THEN Outcome("none", args[1], its)
         ELSE Outcome("KeyError", None, its)
    ELSE IF lower(its[i][1]) = lkey THEN Outcome("none", its[i][2], DelAt(its, i))
    ELSE ipop_loop(its, lkey, args, i + 1)

\* an ipop that lowercases the stored keys but not the key it is given
ipop_raw_key(its, key, args) ==
    IF Len(args) > 1 THEN Outcome("TypeError", None, its)
    ELSE ipop_loop(its, key, args, 1)

ipop(its, key, args) ==
    IF Len(args) > 1 THEN Outcome("TypeError", None, its)
    ELSE ipop_loop(its, lower(key), args, 1)

\* popitem: self._items.pop(), an IndexError on an empty list
popitem(its) ==
    IF Len(its) = 0 THEN Outcome("IndexError", None, its)
    ELSE Outcome("none", its[Len(its)], SubSeq(its, 1, Len(its) - 1))

\* a setdefault that answers as get does, with the latest value of the key
setdefault_latest(its, key, default) ==
    IF getitem(its, key).exc = "none" THEN Outcome("none", getitem(its, key).ret, its)
    ELSE Outcome("none", default, Append(its, <<key, default>>))

\* setdefault: for k, v in self._items: the loop from position i up
RECURSIVE setdefault_loop(_, _, _, _)
setdefault_loop(its, key, default, i) ==
    IF i > Len(its) THEN Outcome("none", default, Append(its, <<key, default>>))
    ELSE IF key = its[i][1] THEN Outcome("none", its[i][2], its)
    ELSE setdefault_loop(its, key, default, i + 1)

setdefault(its, key, default) == setdefault_loop(its, key, default, 1)

\* extend with a sequence of pairs: for k, v in other: append
RECURSIVE extend_loop(_, _, _)
extend_loop(its, other, i) ==
    IF i > Len(other) THEN Outcome("none", None, its)
    ELSE extend_loop(Append(its, <<other[i][1], other[i][2]>>), other, i + 1)

\* an extend that assigns each pair, as update does, and so overwrites
RECURSIVE extend_overwrite_loop(_, _, _)
extend_overwrite_loop(its, other, i) ==
    IF i > Len(other) THEN Outcome("none", None, its)
    ELSE extend_overwrite_loop(setitem(its, other[i][1], other[i][2]).items, other, i + 1)

extend_overwrite(its, other) == extend_overwrite_loop(its, other, 1)

extend(its, other) == extend_loop(its, other, 1)

\* extend(other): other is None, has items() (a MultiDict or a dict, whose items()
\* is the list of its pairs in its own order), or is a sequence of pairs
extend_dispatch(its, kind, other) ==
    IF kind = "None" THEN Outcome("none", None, its)
    ELSE IF kind \in { "MultiDict", "dict" } THEN Outcome("none", None, its \o other)
    ELSE extend(its, other)


\* MutableMapping.update(self, lst) with a sequence of pairs:
\* for key, value in other: self[key] = value, the loop from position i up
RECURSIVE update_loop(_, _, _)
update_loop(its, lst, i) ==
    IF i > Len(lst) THEN Outcome("none", None, its)
    ELSE update_loop(setitem(its, lst[i][1], lst[i][2]).items, lst, i + 1)

\* update(lst): len(lst) != len(dict(lst)) when lst repeats a key, and the warning
\* is then issued through warnings, a name the module never imports: NameError
update(its, lst) ==
    IF Len(lst) /= Cardinality({ lst[i][1] : i \in DOMAIN lst })
    THEN Outcome("NameError", None, its)
    ELSE update_loop(its, lst, 1)

\* clear: del self._items[:]
clear(its) == Outcome("none", None, <<>>)

\* keys(): [k for k, v in self._items]
keys(its) == [i \in DOMAIN its |-> its[i][1]]

\* values(): [v for k, v in self._items]
values(its) == [i \in DOMAIN its |-> its[i][2]]

\* items(): self._items[:]
iteritems(its) == SubSeq(its, 1, Len(its))

\* the record of a MultiDict call
Call(op, key, value, args, other, pre, out) ==
    [op |-> op, key |-> key, value |-> value, args |-> args, other |-> other,
     pre |-> pre, ret |-> out.ret, exc |-> out.exc]

NoCall == [op |-> "init", key |-> <<>>, value |-> None, args |-> <<>>, other |-> <<>>,
           pre |-> <<>>, ret |-> None, exc |-> "none"]

\* the other components are idle while the MultiDict is exercised
RestIdle == UNCHANGED <<mu, req, resources, rlast, heap, hlast>>

Apply(op, key, value, args, other, out) ==
    /\ Len(out.items) <= MaxLen
    /\ items' = out.items
    /\ last' = Call(op, key, value, args, other, items, out)
    /\ RestIdle

GetItem == \E k \in LookupKeys : Apply("getitem", k, None, <<>>, <<>>, getitem(items, k))
SetItem == \E k \in Keys, v \in Values : Apply("setitem", k, v, <<>>, <<>>, setitem(items, k, v))
DelItem == \E k \in LookupKeys : Apply("delitem", k, None, <<>>, <<>>, delitem(items, k))
Add == \E k \in Keys, v \in Values : Apply("add", k, v, <<>>, <<>>, add(items, k, v))
GetAll == \E k \in LookupKeys :
    Apply("getall", k, None, <<>>, <<>>, Outcome("none", getall(items, k), items))
LenCall == Apply("len", <<>>, None, <<>>, <<>>, Outcome("none", len(items), items))
Mixed == Apply("mixed", <<>>, None, <<>>, <<>>, Outcome("none", mixed(items), items))
DictOfLists ==
    Apply("dict_of_lists", <<>>, None, <<>>, <<>>, Outcome("none", dict_of_lists(items), items))
KeysCall == Apply("keys", <<>>, None, <<>>, <<>>, Outcome("none", keys(items), items))
ValuesCall == Apply("values", <<>>, None, <<>>, <<>>, Outcome("none", values(items), items))
ItemsCall == Apply("items", <<>>, None, <<>>, <<>>, Outcome("none", iteritems(items), items))
GetOne == \E k \in LookupKeys : Apply("getone", k, None, <<>>, <<>>, getone(items, k))
IGet == \E k \in LookupKeys : Apply("iget", k, None, <<>>, <<>>, iget(items, k))
Pop == \E k \in LookupKeys, a \in { <<>>, <<Default>> } :
    Apply("pop", k, None, a, <<>>, pop(items, k, a))
IPop == \E k \in LookupKeys, a \in { <<>>, <<Default>> } :
    Apply("ipop", k, None, a, <<>>, ipop(items, k, a))
PopItem == Apply("popitem", <<>>, None, <<>>, <<>>, popitem(items))
SetDefault == \E k \in Keys, v \in Values :
    Apply("setdefault", k, v, <<>>, <<>>, setdefault(items, k, v))
\* the sources of extend by type; a dict has each key once
ExtendSources(kind) ==
    IF kind = "None" THEN { <<>> }
    ELSE IF kind = "dict"
    THEN { o \in SeqsUpTo(SrcPairs, MaxSrc) : \A i, j \in DOMAIN o : i /= j => o[i][1] /= o[j][1] }
    ELSE SeqsUpTo(SrcPairs, MaxSrc)

\* extend(other); the call's value field holds the type of other
Extend == \E kind \in { "None", "MultiDict", "dict", "list" } : \E o \in ExtendSources(kind) :
    Apply("extend", <<>>, kind, <<>>, o, extend_dispatch(items, kind, o))
Update == \E o \in SeqsUpTo(SrcPairs, MaxSrc) : Apply("update", <<>>, None, <<>>, o, update(items, o))
Clear == Apply("clear", <<>>, None, <<>>, <<>>, clear(items))

----------------------------------------------------------------------------
(* MultiDict: the claims *)

\* the positions of the entries of its whose key is key
Positions(its, key) == { i \in DOMAIN its : its[i][1] = key }
\* the positions of the entries of its whose lowercased key is the lowercased key
IPositions(its, key) == { i \in DOMAIN its : lower(its[i][1]) = lower(key) }
\* the smallest and the largest of a non-empty set of positions
First(S) == CHOOSE i \in S : \A j \in S : i <= j
Latest(S) == CHOOSE i \in S : \A j \in S : j <= i
\* the entries of its whose key is not key, in order
Others(its, key) == SelectSeq(its, LAMBDA e : e[1] /= key)

\* C5: map[key] returns the value of the last entry in insertion order whose key
\* is key, raises KeyError when there is none, and leaves the entries unchanged.
C5_GetItemLastWins ==
    last.op = "getitem" =>
        /\ items = last.pre
        /\ IF Positions(last.pre, last.key) = {}
           THEN last.exc = "KeyError"
           ELSE /\ last.exc = "none"
                /\ last.ret = last.pre[Latest(Positions(last.pre, last.key))][2]

\* a lookup of a key whose first and last entries hold different values
C5_Witness ==
    /\ last.op = "getitem"
    /\ last.exc = "none"
    /\ \E i, j \in Positions(last.pre, last.key) : i < j /\ last.pre[i][2] /= last.pre[j][2]

\* C6: after map[k] = v getall(k) is exactly [v], (k, v) is the last entry, the
\* entries of every other key are kept in order, and nothing is raised.
C6_SetItemReplacesAll ==
    last.op = "setitem" =>
        /\ last.exc = "none"
        /\ getall(items, last.key) = <<last.value>>
        /\ items /= <<>>
        /\ items[Len(items)] = <<last.key, last.value>>
        /\ Others(items, last.key) = Others(last.pre, last.key)

\* an assignment to a key that had two entries, among entries of another key
C6_Witness ==
    /\ last.op = "setitem"
    /\ Cardinality(Positions(last.pre, last.key)) >= 2
    /\ Others(last.pre, last.key) /= <<>>

\* C7: del map[k] removes every entry of k and keeps the others in order, after
\* which k is not contained; with no entry of k it raises KeyError and changes nothing.
C7_DelItemRemovesAll ==
    last.op = "delitem" =>
        IF Positions(last.pre, last.key) /= {}
        THEN /\ last.exc = "none"
             /\ items = Others(last.pre, last.key)
             /\ ~contains(items, last.key)
        ELSE /\ last.exc = "KeyError"
             /\ items = last.pre

\* a deletion of a key whose entries are adjacent and reach the end of the list
C7_Witness ==
    /\ last.op = "delitem"
    /\ last.exc = "none"
    /\ Len(last.pre) >= 3
    /\ { Len(last.pre) - 1, Len(last.pre) } \subseteq Positions(last.pre, last.key)
    /\ items /= <<>>

\* C8: pop(key) removes the first entry of key and nothing else and returns its
\* value; with no entry, pop(key) raises KeyError and pop(key, default) returns
\* default, the entries unchanged.
C8_PopRemovesFirst ==
    last.op = "pop" =>
        IF Positions(last.pre, last.key) /= {}
        THEN LET i == First(Positions(last.pre, last.key))
             IN  /\ last.exc = "none"
                 /\ last.ret = last.pre[i][2]
                 /\ items = DelAt(last.pre, i)
        ELSE /\ items = last.pre
             /\ IF last.args = <<>>
                THEN last.exc = "KeyError"
                ELSE last.exc = "none" /\ last.ret = last.args[1]

\* a pop of a key with two entries of different values: the later one stays
C8_Witness ==
    /\ last.op = "pop"
    /\ last.exc = "none"
    /\ \E i, j \in Positions(last.pre, last.key) : i < j /\ last.pre[i][2] /= last.pre[j][2]
    /\ Positions(items, last.key) /= {}

\* C9: iget(key) returns the value of the last entry whose lowercased key is the
\* lowercased key, raises KeyError when there is none, and changes nothing.
C9_IGetLikeGet ==
    last.op = "iget" =>
        /\ items = last.pre
        /\ IF IPositions(last.pre, last.key) = {}
           THEN last.exc = "KeyError"
           ELSE /\ last.exc = "none"
                /\ last.ret = last.pre[Latest(IPositions(last.pre, last.key))][2]

\* C10: ipop(key) removes the first entry whose lowercased key is the lowercased
\* key and nothing else and returns its value, the other entries keeping their
\* keys as stored; with no such entry, ipop(key) raises KeyError and
\* ipop(key, default) returns default, the entries unchanged.
C10_IPopRemovesFirst ==
    last.op = "ipop" =>
        IF IPositions(last.pre, last.key) /= {}
        THEN LET i == First(IPositions(last.pre, last.key))
             IN  /\ last.exc = "none"
                 /\ last.ret = last.pre[i][2]
                 /\ items = DelAt(last.pre, i)
        ELSE /\ items = last.pre
             /\ IF last.args = <<>>
                THEN last.exc = "KeyError"
                ELSE last.exc = "none" /\ last.ret = last.args[1]

\* an ipop by a spelling that is not stored, matching two entries of different
\* case: the first is removed and the second stays as stored
C10_Witness ==
    /\ last.op = "ipop"
    /\ last.exc = "none"
    /\ Positions(last.pre, last.key) = {}
    /\ \E i, j \in IPositions(last.pre, last.key) :
          i < j /\ last.pre[i][1] /= last.pre[j][1] /\ last.pre[i][2] /= last.pre[j][2]
    /\ IPositions(items, last.key) /= {}

\* the keys of a sequence of pairs, and the last value it gives for a key
KeysOf(lst) == { lst[i][1] : i \in DOMAIN lst }
LastValue(lst, key) == lst[Latest(Positions(lst, key))][2]

\* C11: update(source) with a source that repeats a key warns and still
\* completes, after which getall(k) is exactly [the last value the source gives
\* for k] for every key k of the source, the entries of other keys unchanged.
C11_UpdateOverwrites ==
    (last.op = "update" /\ Len(last.other) /= Cardinality(KeysOf(last.other))) =>
        /\ last.exc = "none"
        /\ \A k \in KeysOf(last.other) : getall(items, k) = <<LastValue(last.other, k)>>
        /\ \A k \in Keys \ KeysOf(last.other) : getall(items, k) = getall(last.pre, k)

\* C12: after extend(source), for a source that is a MultiDict, a dict or a
\* sequence of pairs, the entries are the prior entries followed by the source's
\* entries in the source's order, and len has grown by the number of source entries.
C12_ExtendAppends ==
    last.op = "extend" =>
        /\ last.exc = "none"
        /\ items = last.pre \o last.other
        /\ Len(items) = Len(last.pre) + Len(last.other)

\* an extend by a sequence of pairs that repeats a key the map already holds twice
C12_Witness ==
    /\ last.op = "extend"
    /\ last.value = "list"
    /\ \E k \in KeysOf(last.other) : Cardinality(Positions(last.pre, k)) >= 2
    /\ Len(items) = Len(last.pre) + Len(last.other)

\* C13 as stated: getone(key) returns the value when exactly one entry has the
\* key, fails with the key-not-found error when none has it, and fails with an
\* error of another kind when more than one has it; the entries are unchanged.
C13_GetOneDistinctErrors ==
    last.op = "getone" =>
        LET v == getall(last.pre, last.key) IN
        /\ items = last.pre
        /\ Len(v) = 1 => (last.exc = "none" /\ last.ret = v[1])
        /\ Len(v) = 0 => last.exc = "KeyError"
        /\ Len(v) > 1 => last.exc \notin { "none", "KeyError" }

\* C13 amended: getone(key) returns the value when exactly one entry has the key
\* and raises KeyError otherwise, with the message "Key not found" when no entry
\* has the key and "Multiple values match" when more than one has it; the two
\* failures differ in the message only; the entries are unchanged.
C13_GetOneKeyError ==
    last.op = "getone" =>
        LET v == getall(last.pre, last.key) IN
        /\ items = last.pre
        /\ Len(v) = 1 => (last.exc = "none" /\ last.ret = v[1])
        /\ Len(v) = 0 => (last.exc = "KeyError" /\ last.ret = "Key not found")
        /\ Len(v) > 1 => (last.exc = "KeyError" /\ last.ret = "Multiple values match")

\* getone of a key that two entries hold
C13_Witness ==
    /\ last.op = "getone"
    /\ Len(getall(last.pre, last.key)) > 1
    /\ last.exc = "KeyError"

\* the values of the entries of key, in the order of the entries
ValuesOf(lst, key) ==
    LET hits == SelectSeq(lst, LAMBDA e : e[1] = key)
    IN  [i \in DOMAIN hits |-> hits[i][2]]

\* C17: getall(key) returns the values of all entries whose key equals key, in
\* insertion order, and the empty sequence, without an error, when there are
\* none; get(key) is then the last of them, so after adds of k1, k2, k1 getall(k1)
\* holds both values in the order added and get(k1) is the second.
C17_GetAllInOrder ==
    last.op = "getall" =>
        /\ last.exc = "none"
        /\ items = last.pre
        /\ last.ret = ValuesOf(last.pre, last.key)
        /\ Positions(last.pre, last.key) = {} => last.ret = <<>>
        /\ last.ret /= <<>> =>
              /\ getitem(items, last.key).exc = "none"
              /\ getitem(items, last.key).ret = last.ret[Len(last.ret)]

\* getall(k1) on a map whose entries have the keys k1, k2, k1 and two different k1 values
C17_Witness ==
    /\ last.op = "getall"
    /\ Len(last.pre) = 3
    /\ last.pre[1][1] = last.key
    /\ last.pre[2][1] /= last.key
    /\ last.pre[3][1] = last.key
    /\ last.pre[1][2] /= last.pre[3][2]
    /\ last.ret = <<last.pre[1][2], last.pre[3][2]>>
    /\ getitem(items, last.key).ret = last.pre[3][2]

\* the sum over the keys in ks of the number of values getall gives for the key
RECURSIVE SumGetAll(_, _)
SumGetAll(lst, ks) ==
    IF ks = {} THEN 0
    ELSE LET k == CHOOSE x \in ks : TRUE
         IN  Len(getall(lst, k)) + SumGetAll(lst, ks \ { k })

\* C18: add(k, v) leaves every existing entry in place and appends (k, v) as the
\* last entry, also when k is already present, so len() grows by exactly 1; in
\* every state len() is the number of entries, the sum over the distinct keys of
\* the length of getall(key).
C18_AddAppendsLenCounts ==
    /\ last.op = "add" =>
          /\ last.exc = "none"
          /\ items = Append(last.pre, <<last.key, last.value>>)
          /\ len(items) = len(last.pre) + 1
    /\ len(items) = SumGetAll(items, KeysOf(items))
    /\ last.op = "len" => (last.ret = SumGetAll(last.pre, KeysOf(last.pre)) /\ items = last.pre)

\* an add of a key that is already present, leaving more entries than distinct keys
C18_Witness ==
    /\ last.op = "add"
    /\ Positions(last.pre, last.key) /= {}
    /\ len(items) = len(last.pre) + 1
    /\ len(items) > Cardinality(KeysOf(items))

\* d has exactly the keys of lst, each once
HasKeysOf(d, lst) ==
    /\ { e[1] : e \in d } = KeysOf(lst)
    /\ Cardinality(d) = Cardinality(KeysOf(lst))

\* C19: mixed() and dict_of_lists() each have exactly the map's distinct keys;
\* dict_of_lists()[k] is getall(k) for every key, also when k occurs once;
\* mixed()[k] is getall(k) when k occurs more than once and the single value
\* itself when k occurs once; neither call changes the map.
C19_DerivedViews ==
    /\ last.op = "dict_of_lists" =>
          /\ last.exc = "none"
          /\ items = last.pre
          /\ HasKeysOf(last.ret, last.pre)
          /\ \A k \in KeysOf(last.pre) : DictGet(last.ret, k) = Many(getall(last.pre, k))
    /\ last.op = "mixed" =>
          /\ last.exc = "none"
          /\ items = last.pre
          /\ HasKeysOf(last.ret, last.pre)
          /\ \A k \in KeysOf(last.pre) :
                DictGet(last.ret, k) =
                    IF Len(getall(last.pre, k)) > 1
                    THEN Many(getall(last.pre, k))
                    ELSE One(getall(last.pre, k)[1])

\* mixed() on entries (a, x), (b, y), (a, z): a list for a, the single value for b
C19_Witness ==
    /\ last.op = "mixed"
    /\ Len(last.pre) = 3
    /\ last.pre[1][1] = last.pre[3][1]
    /\ last.pre[2][1] /= last.pre[1][1]
    /\ last.pre[1][2] /= last.pre[3][2]
    /\ last.ret = { <<last.pre[1][1], Many(<<last.pre[1][2], last.pre[3][2]>>)>>,
                    <<last.pre[2][1], One(last.pre[2][2])>> }
    /\ dict_of_lists(last.pre) =
          { <<last.pre[1][1], Many(<<last.pre[1][2], last.pre[3][2]>>)>>,
            <<last.pre[2][1], Many(<<last.pre[2][2]>>)>> }

\* C21: setdefault(key, default) returns the value of the first entry in
\* insertion order whose key equals key and leaves the entries unchanged when
\* there is such an entry, also when the key has several entries; otherwise it
\* appends exactly one entry (key, default) at the end and returns default.
C21_SetDefaultFirstOrInsert ==
    last.op = "setdefault" =>
        /\ last.exc = "none"
        /\ Positions(last.pre, last.key) /= {} =>
              /\ last.ret = last.pre[First(Positions(last.pre, last.key))][2]
              /\ items = last.pre
        /\ Positions(last.pre, last.key) = {} =>
              /\ last.ret = last.value
              /\ items = Append(last.pre, <<last.key, last.value>>)

\* setdefault of a key with two entries of different values: the result is the
\* first and differs from get(key)
C21_Witness ==
    /\ last.op = "setdefault"
    /\ Cardinality(Positions(last.pre, last.key)) >= 2
    /\ last.ret = last.pre[First(Positions(last.pre, last.key))][2]
    /\ last.ret /= getitem(items, last.key).ret
    /\ items = last.pre

\* s can be had from t by removing entries of t, the rest keeping their order
RECURSIVE IsSubseq(_, _)
IsSubseq(s, t) ==
    IF s = <<>> THEN TRUE
    ELSE IF t = <<>> THEN FALSE
    ELSE IF Head(s) = Head(t) THEN IsSubseq(Tail(s), Tail(t))
    ELSE IsSubseq(s, Tail(t))

\* the pairs a call offers for insertion, in the order it offers them
Offered(c) ==
    IF c.op \in { "add", "setitem", "setdefault" } THEN << <<c.key, c.value>> >>
    ELSE IF c.op \in { "extend", "update" } THEN c.other
    ELSE <<>>

\* C22: after every call the entries are entries that were there before, in the
\* order they had, followed by entries the call inserted, in the order it
\* offered them: nothing is reordered or duplicated, and an assignment leaves
\* its key once, at the end; keys(), values() and items() enumerate the entries
\* position by position, keys() giving a key once per entry.
C22_InsertionOrder ==
    /\ \E n \in 0..Len(items) :
          /\ IsSubseq(SubSeq(items, 1, n), last.pre)
          /\ IsSubseq(SubSeq(items, n + 1, Len(items)), Offered(last))
    /\ last.op = "setitem" =>
          /\ items = Others(last.pre, last.key) \o << <<last.key, last.value>> >>
          /\ Positions(items, last.key) = { Len(items) }
    /\ last.op \in { "keys", "values", "items" } =>
          /\ items = last.pre
          /\ Len(last.ret) = Len(items)
          /\ \A i \in DOMAIN items :
                last.ret[i] = CASE last.op = "keys" -> items[i][1]
                                [] last.op = "values" -> items[i][2]
                                [] OTHER -> items[i]

\* keys() on a map whose first and third entries have the same key
C22_Witness ==
    /\ last.op = "keys"
    /\ Len(items) = 3
    /\ last.ret[1] = last.ret[3]
    /\ last.ret[2] /= last.ret[1]
    /\ last.ret = <<items[1][1], items[2][1], items[3][1]>>

----------------------------------------------------------------------------
(* MultiDict over list objects: view_list, the constructor and copy *)

\* heap.cells is the list objects in allocation order, an object's identity being
\* its position; heap.lst is a caller's list, heap.view the _items of
\* m = MultiDict.view_list(lst), heap.copy the _items of a MultiDict built from m
\* (0: not created yet)

\* list(x): a new list object with the elements of x
Alloc(h, who, content) ==
    [h EXCEPT !.cells = Append(h.cells, content), ![who] = Len(h.cells) + 1]

\* view_list(lst): obj._items = lst
view_list(h) == [h EXCEPT !.view = h.lst]

\* a constructor that keeps the source's list object as its own _items
construct_alias(h, how) == [h EXCEPT !.copy = h.view]

\* MultiDict(m), m.copy() and MultiDict(m.items()): self._items = list(...) of the
\* source's pairs
construct(h, how) == Alloc(h, "copy", h.cells[h.view])

\* a clear that gives a view a new empty list of its own
store_rebind(h, who, op, its) ==
    IF op = "clear" /\ h[who] = h.lst
    THEN Alloc(h, who, its)
    ELSE [h EXCEPT !.cells[h[who]] = its]

\* every mutating method changes the list object self._items itself (append,
\* del, pop, extend); none assigns self._items
store(h, who, op, its) == [h EXCEPT !.cells[h[who]] = its]

\* the mutating calls on a MultiDict whose _items is its, each with the list it leaves
MapCalls(its) ==
    { [op |-> "add", its |-> add(its, p[1], p[2]).items] : p \in SrcPairs }
    \cup { [op |-> "setitem", its |-> setitem(its, p[1], p[2]).items] : p \in SrcPairs }
    \cup { [op |-> "delitem", its |-> delitem(its, p[1]).items] : p \in SrcPairs }
    \cup { [op |-> "pop", its |-> pop(its, p[1], <<>>).items] : p \in SrcPairs }
    \cup { [op |-> "ipop", its |-> ipop(its, p[1], <<>>).items] : p \in SrcPairs }
    \cup { [op |-> "popitem", its |-> popitem(its).items] }
    \cup { [op |-> "setdefault", its |-> setdefault(its, p[1], p[2]).items] : p \in SrcPairs }
    \cup { [op |-> "extend", its |-> extend_dispatch(its, "list", o).items] :
             o \in SeqsUpTo(SrcPairs, MaxSrc) }
    \cup { [op |-> "update", its |-> update(its, o).items] : o \in SeqsUpTo(SrcPairs, MaxSrc) }
    \cup { [op |-> "clear", its |-> clear(its).items] }

\* what the owner of a list does to it directly: append, del lst[i], del lst[:]
ListCalls(lst) ==
    { [op |-> "list.append", its |-> Append(lst, p)] : p \in SrcPairs }
    \cup { [op |-> "list.del", its |-> DelAt(lst, i)] : i \in DOMAIN lst }
    \cup { [op |-> "list.clear", its |-> <<>>] }

HCall(op, on) == [op |-> op, on |-> on, pre |-> heap]

HeapStep(h, op, on) ==
    /\ \A i \in DOMAIN h.cells : Len(h.cells[i]) <= MaxLen
    /\ heap' = h
    /\ hlast' = HCall(op, on)
    /\ UNCHANGED <<items, last, mu, req, resources, rlast>>

\* m = MultiDict.view_list(lst)
ViewList ==
    /\ heap.view = 0
    /\ HeapStep(view_list(heap), "view_list", "lst")

\* the owner of lst changes it
ListMutate ==
    \E c \in ListCalls(heap.cells[heap.lst]) :
        HeapStep([heap EXCEPT !.cells[heap.lst] = c.its], c.op, "lst")

\* a mutating call on the view m
ViewMutate ==
    /\ heap.view /= 0
    /\ \E c \in MapCalls(heap.cells[heap.view]) :
          HeapStep(store(heap, "view", c.op, c.its), c.op, "view")

\* c = MultiDict(m), c = m.copy() or c = MultiDict(m.items())
ConstructOps == { "MultiDict(m)", "m.copy()", "MultiDict(m.items())" }
Construct ==
    /\ heap.view /= 0
    /\ heap.copy = 0
    /\ \E how \in ConstructOps : HeapStep(construct(heap, how), how, "new")

\* a mutating call on the constructed map c
CopyMutate ==
    /\ heap.copy /= 0
    /\ \E c \in MapCalls(heap.cells[heap.copy]) :
          HeapStep(store(heap, "copy", c.op, c.its), c.op, "copy")

\* C15: from m = view_list(lst) on, through every external change of lst and
\* every mutating call on m, m's _items and lst are one and the same list
\* object, so the entries seen through m are those of lst and no call leaves m
\* with a list of its own.
C15_ViewAliasesList ==
    heap.view /= 0 =>
        /\ heap.view = heap.lst
        /\ heap.cells[heap.view] = heap.cells[heap.lst]

\* a clear through the view that emptied the caller's list
C15_Witness ==
    /\ hlast.on = "view"
    /\ hlast.op = "clear"
    /\ hlast.pre.cells[hlast.pre.lst] /= <<>>
    /\ heap.cells[heap.lst] = <<>>

\* C16: a map built from another map (constructor or copy()) or from its pair
\* sequence has the source's entries in the same order with the same
\* multiplicity and a list object of its own, so a later mutation of either map
\* leaves the other's entries as they were.
C16_ConstructCopies ==
    /\ hlast.op \in ConstructOps =>
          /\ heap.copy \notin { 0, heap.view, heap.lst }
          /\ heap.cells[heap.copy] = hlast.pre.cells[hlast.pre.view]
          /\ heap.cells[heap.view] = hlast.pre.cells[hlast.pre.view]
    /\ heap.copy /= 0 => heap.copy /= heap.view
    /\ (hlast.on \in { "view", "lst" } /\ hlast.pre.copy /= 0) =>
          heap.cells[heap.copy] = hlast.pre.cells[hlast.pre.copy]
    /\ hlast.on = "copy" => heap.cells[heap.view] = hlast.pre.cells[hlast.pre.view]

\* the source map changed after a copy with a repeated key was taken of it
C16_Witness ==
    /\ hlast.on = "view"
    /\ hlast.pre.copy /= 0
    /\ heap.cells[heap.view] /= hlast.pre.cells[hlast.pre.view]
    /\ \E k \in Keys : Len(getall(heap.cells[heap.copy], k)) >= 2
    /\ heap.cells[heap.copy] = hlast.pre.cells[hlast.pre.copy]

----------------------------------------------------------------------------
(* make_uri *)

\* a str argument, and None in its place
Str(s) == [none |-> FALSE, s |-> s]
NoneArg == [none |-> TRUE, s |-> <<>>]

\* the values of a query parameter: None, a str, or a list of str and None
QNone == [kind |-> "none", s |-> <<>>, l |-> <<>>]
QStr(s) == [kind |-> "str", s |-> s, l |-> <<>>]
QList(l) == [kind |-> "list", s |-> <<>>, l |-> l]

\* the outcome of make_uri: the exception it raised, or the string it returned
UriOk(s) == [exc |-> "none", val |-> s]
UriRaise(e) == [exc |-> e, val |-> <<>>]

\* the characters urllib.quote never encodes, among those the model writes
AlwaysSafe == { "h", "a", "b", "c", "t", "s", "x", "_", ".", "-" }

\* the two hex digits of a character's code
HexOf(c) ==
    CASE c = "/" -> <<"2", "F">>
      [] c = " " -> <<"2", "0">>
      [] c = "?" -> <<"3", "F">>
      [] c = "=" -> <<"3", "D">>
      [] c = "&" -> <<"2", "6">>
      [] c = "%" -> <<"2", "5">>
      [] c = "+" -> <<"2", "B">>
      [] OTHER -> <<"0", "0">>

\* urllib.quote(string, safe)
RECURSIVE quote(_, _)
quote(string, safe) ==
    IF string = <<>> THEN <<>>
    ELSE (IF Head(string) \in AlwaysSafe \cup safe
          THEN <<Head(string)>>
          ELSE <<"%">> \o HexOf(Head(string)))
         \o quote(Tail(string), safe)

\* urllib.quote_plus(s): quote(s, ' ') with each space then replaced by '+'
quote_plus(s) ==
    LET q == quote(s, { " " })
    IN  [i \in DOMAIN q |-> IF q[i] = " " THEN "+" ELSE q[i]]

\* unicode_quote(string, safe=''): the string is already a byte string
unicode_quote(string) == quote(string, {})

\* str.strip('/')
RECURSIVE lstrip(_, _)
lstrip(s, c) == IF s /= <<>> /\ Head(s) = c THEN lstrip(Tail(s), c) ELSE s
RECURSIVE rstrip(_, _)
rstrip(s, c) ==
    IF s /= <<>> /\ s[Len(s)] = c THEN rstrip(SubSeq(s, 1, Len(s) - 1), c) ELSE s
strip(s, c) == rstrip(lstrip(s, c), c)

\* sep.join(parts)
RECURSIVE join(_, _)
join(sep, parts) ==
    IF parts = <<>> THEN <<>>
    ELSE IF Len(parts) = 1 THEN parts[1]
    ELSE parts[1] \o sep \o join(sep, Tail(parts))

\* unicode_urlencode(data): urlencode of the pairs, quote_plus(k) + '=' + quote_plus(v)
unicode_urlencode(data) ==
    join(<<"&">>, [i \in DOMAIN data |->
                     quote_plus(data[i][1]) \o <<"=">> \o quote_plus(data[i][2])])

\* [unicode_quote(s.strip('/')) for s in path if s is not None]
RECURSIVE path_parts(_)
path_parts(path) ==
    IF path = <<>> THEN <<>>
    ELSE (IF Head(path).none THEN <<>>
          ELSE << unicode_quote(strip(Head(path).s, "/")) >>)
         \o path_parts(Tail(path))

\* [(name, i) for i in v if i is not None]: name is bound nowhere in make_uri nor
\* in the module, so the first element that passes the filter raises NameError
list_params(v) ==
    IF \E j \in DOMAIN v : ~v[j].none
    THEN [exc |-> "NameError", params |-> <<>>]
    ELSE [exc |-> "none", params |-> <<>>]

\* for k, v in query.items(): the loop from position i up, params accumulated
RECURSIVE query_loop(_, _, _)
query_loop(query, i, params) ==
    IF i > Len(query) THEN [exc |-> "none", params |-> params]
    ELSE LET k == query[i][1]
             v == query[i][2]
         IN  IF v.kind = "list"
             THEN LET lp == list_params(v.l)
                  IN  IF lp.exc /= "none" THEN lp
                      ELSE query_loop(query, i + 1, params \o lp.params)
             ELSE IF v.kind /= "none"
             THEN query_loop(query, i + 1, Append(params, <<k, v.s>>))
             ELSE query_loop(query, i + 1, params)

\* a make_uri that removes every trailing '/' of base
make_uri_rstrip(base, path, query) ==
    LET pth == join(<<"/">>, << <<>> >> \o path_parts(path))
        retval == IF pth /= <<>> THEN <<rstrip(base, "/"), pth>> ELSE <<rstrip(base, "/")>>
        q == query_loop(query, 1, <<>>)
    IN  IF q.exc /= "none" THEN UriRaise(q.exc)
        ELSE IF q.params /= <<>>
             THEN UriOk(join(<<>>, retval \o << <<"?">>, unicode_urlencode(q.params) >>))
             ELSE UriOk(join(<<>>, retval))

\* make_uri(base, *path, **query); query is the pairs in the order query.items() yields them
make_uri(base, path, query) ==
    LET base1 == IF base /= <<>> /\ base[Len(base)] = "/"
                 THEN SubSeq(base, 1, Len(base) - 1)
                 ELSE base
        pth == join(<<"/">>, << <<>> >> \o path_parts(path))
        retval == IF pth /= <<>> THEN <<base1, pth>> ELSE <<base1>>
        q == query_loop(query, 1, <<>>)
    IN  IF q.exc /= "none" THEN UriRaise(q.exc)
        ELSE IF q.params /= <<>>
             THEN UriOk(join(<<>>, retval \o << <<"?">>, unicode_urlencode(q.params) >>))
             ELSE UriOk(join(<<>>, retval))

\* the arguments make_uri is evaluated on
Bases == { <<"h">>, <<"h", "/">>, <<"h", "/", "/">> }
Segments == { NoneArg, Str(<<"a">>), Str(<<"/", "a", "/">>), Str(<<"a", "/", "b">>), Str(<<"/">>) }
QueryKeys == { <<"t">>, <<"s">> }
QueryValues ==
    { QNone, QStr(<<"a">>), QStr(<<"a", " ", "b">>),
      QList(<<>>), QList(<<Str(<<"a">>), Str(<<"b">>)>>), QList(<<NoneArg, Str(<<"a">>)>>),
      QList(<<NoneArg>>) }
\* a dict has each key once; the sequence is the order its items() come in
Queries ==
    { q \in SeqsUpTo({ <<k, v>> : k \in QueryKeys, v \in QueryValues }, MaxQuery) :
        \A i, j \in DOMAIN q : i /= j => q[i][1] /= q[j][1] }
Paths == SeqsUpTo(Segments, MaxPath)

MuInit == mu \in { [stage |-> "args", base |-> b, path |-> p, query |-> q,
                    out |-> UriOk(<<>>)] : b \in Bases, p \in Paths, q \in Queries }

\* the call make_uri(base, *path, **query)
MakeUri ==
    /\ mu.stage = "args"
    /\ mu' = [mu EXCEPT !.stage = "done", !.out = make_uri(mu.base, mu.path, mu.query)]
    /\ UNCHANGED <<items, last, req, resources, rlast, heap, hlast>>

----------------------------------------------------------------------------
(* make_uri: the claims *)

\* the pairs the query is to expand to: one per non-None element of a list, under
\* the parameter's key and in element order; none for None; one for a str
RECURSIVE ExpandedPairs(_)
ExpandedPairs(query) ==
    IF query = <<>> THEN <<>>
    ELSE LET k == Head(query)[1]
             v == Head(query)[2]
             own == IF v.kind = "list"
                    THEN LET kept == SelectSeq(v.l, LAMBDA e : ~e.none)
                         IN  [i \in DOMAIN kept |-> <<k, kept[i].s>>]
                    ELSE IF v.kind = "none" THEN <<>>
                    ELSE << <<k, v.s>> >>
         IN  own \o ExpandedPairs(Tail(query))

\* C1: make_uri returns base and path, followed, when the query expands to at
\* least one pair, by '?' and the '&'-joined encoded pairs: one pair per non-None
\* list element under the parameter's own key, none for None, one per other scalar.
C1_QueryExpansion ==
    mu.stage = "done" =>
        LET pairs == ExpandedPairs(mu.query)
            stem == make_uri(mu.base, mu.path, <<>>).val
        IN  /\ mu.out.exc = "none"
            /\ mu.out.val = IF pairs = <<>> THEN stem
                            ELSE stem \o <<"?">> \o unicode_urlencode(pairs)

\* base without one trailing '/', and the stripped, encoded non-None segments
BaseStem(base) ==
    IF base /= <<>> /\ base[Len(base)] = "/" THEN SubSeq(base, 1, Len(base) - 1) ELSE base
EncodedSegments(path) ==
    LET given == SelectSeq(path, LAMBDA s : ~s.none)
    IN  [i \in DOMAIN given |-> quote(strip(given[i].s, "/"), {})]

\* s begins with p, and what follows p is empty or begins the query string
StemOf(p, s) ==
    /\ Len(p) <= Len(s)
    /\ SubSeq(s, 1, Len(p)) = p
    /\ Len(s) > Len(p) => s[Len(p) + 1] = "?"

\* '/' + segment for each segment, concatenated
RECURSIVE SlashEach(_)
SlashEach(segs) == IF segs = <<>> THEN <<>> ELSE <<"/">> \o Head(segs) \o SlashEach(Tail(segs))

\* C14 as stated: the returned uri is base without one trailing '/', followed,
\* only if the '/'-joined stripped and encoded non-None segments are non-empty,
\* by '/' and that joined path, and otherwise by nothing, also when every
\* supplied segment is empty after stripping.
C14_PathAssembly ==
    (mu.stage = "done" /\ mu.out.exc = "none") =>
        LET joined == join(<<"/">>, EncodedSegments(mu.path))
        IN  StemOf(IF joined /= <<>> THEN BaseStem(mu.base) \o <<"/">> \o joined
                   ELSE BaseStem(mu.base),
                   mu.out.val)

\* C14 amended: the returned uri is base without one trailing '/', followed by
\* '/' and the stripped, encoded segment for every non-None segment in order,
\* a segment that is empty after stripping included; nothing is appended only
\* when no non-None segment is supplied.
C14_PathAssemblyEachSegment ==
    (mu.stage = "done" /\ mu.out.exc = "none") =>
        StemOf(BaseStem(mu.base) \o SlashEach(EncodedSegments(mu.path)), mu.out.val)

\* a base ending in '//' with a segment that strips to nothing and one holding a '/'
C14_Witness ==
    /\ mu.stage = "done"
    /\ mu.out.exc = "none"
    /\ mu.base = <<"h", "/", "/">>
    /\ mu.path = << Str(<<"/">>), Str(<<"a", "/", "b">>) >>
    /\ mu.out.val = <<"h", "/", "/", "/", "a", "%", "2", "F", "b">>

----------------------------------------------------------------------------
(* RestClient.make_request *)

\* the values a response body, an error message or a result string can be: a str,
\* a dict (its items, each key once), a tuple of str and None, the str() of a dict
DNone == [t |-> "none", s |-> "", d |-> {}, tup |-> <<>>]
DStr(s) == [t |-> "str", s |-> s, d |-> {}, tup |-> <<>>]
DDict(d) == [t |-> "dict", s |-> "", d |-> d, tup |-> <<>>]
DTuple(tup) == [t |-> "tuple", s |-> "", d |-> {}, tup |-> tup]
DRepr(d) == [t |-> "repr", s |-> "", d |-> d, tup |-> <<>>]

\* dict.get(key): the value, or None when the key is missing
dict_get(d, key) ==
    IF \E p \in d : p[1] = key
    THEN [none |-> FALSE, s |-> (CHOOSE p \in d : p[1] = key)[2]]
    ELSE [none |-> TRUE, s |-> ""]

\* str(s): a str is itself, a dict becomes its printed form
str(data) == IF data.t = "dict" THEN DRepr(data.d) ELSE data

\* what make_request returns or raises, and the calls it made on the transport
NoResp == [status |-> 0, tag |-> "none"]

\* ResourceResult.__new__(cls, s, http_code, response)
ResourceResult(s, http_code, response) ==
    [kind |-> "ResourceResult", message |-> str(s), code |-> http_code,
     response |-> response]

\* ResourceError.__init__(self, message, http_code, response), raised as class kind
ResourceError(kind, message, http_code, response) ==
    [kind |-> kind, message |-> message, code |-> http_code, response |-> response]

\* a classification that takes only 401 for Unauthorized
raise_for_status_401(status_code, data, resp) ==
    LET error == IF data.t = "dict"
                 THEN DTuple(<<dict_get(data.d, "error"), dict_get(data.d, "reason")>>)
                 ELSE data
    IN  IF status_code = 404
        THEN ResourceError("ResourceNotFound", error, 404, resp)
        ELSE IF status_code = 401
        THEN ResourceError("Unauthorized", error, status_code, resp)
        ELSE ResourceError("RequestFailed", error, status_code, resp)

\* a classification that hands the body on as the message whatever its type
raise_for_status_raw(status_code, data, resp) ==
    IF status_code = 404
    THEN ResourceError("ResourceNotFound", data, 404, resp)
    ELSE IF status_code = 401 \/ status_code = 403
    THEN ResourceError("Unauthorized", data, status_code, resp)
    ELSE ResourceError("RequestFailed", data, status_code, resp)

\* lines 333-346: the error payload and the exception class of a status >= 400
raise_for_status(status_code, data, resp) ==
    LET error == IF data.t = "dict"
                 THEN DTuple(<<dict_get(data.d, "error"), dict_get(data.d, "reason")>>)
                 ELSE data
    IN  IF status_code = 404
        THEN ResourceError("ResourceNotFound", error, 404, resp)
        ELSE IF status_code = 401 \/ status_code = 403
        THEN ResourceError("Unauthorized", error, status_code, resp)
        ELSE ResourceError("RequestFailed", error, status_code, resp)

\* headers = headers or {}
headers_or_empty(headers) == IF headers = None THEN "{}" ELSE headers

\* RestClient.__init__(httpclient), with a transport supplied
RestClient(httpclient) ==
    [httpclient |-> httpclient, status_code |-> None, response |-> None]

\* RestClient.make_request(method, uri, path, body, headers, **params); reply is
\* what self.httpclient.request returns when it is called: (resp, data)
make_request(self, method, uri, path, body, headers, params, reply) ==
    LET target == make_uri(uri, <<path>>, params)
        sent == << [client |-> self.httpclient, uri |-> target.val, method |-> method,
                    body |-> body, headers |-> headers_or_empty(headers)] >>
        resp == reply.resp
        data == reply.data
        status_code == resp.status
    IN  IF target.exc /= "none"
        THEN [out |-> ResourceError(target.exc, DNone, 0, NoResp), sent |-> <<>>]
        ELSE IF status_code >= 400
        THEN [out |-> raise_for_status(status_code, data, resp), sent |-> sent]
        ELSE [out |-> ResourceResult(data, status_code, resp), sent |-> sent]

Methods == { "GET", "HEAD", "POST", "PUT", "DELETE" }
Statuses == { 200, 204, 302, 399, 400, 401, 402, 403, 404, 405, 500, 503 }
BodyItems == { <<"error", "not_found">>, <<"reason", "missing">>, <<"other", "x">> }
Bodies == { DStr("hello"), DStr("forbidden page") } \cup { DDict(d) : d \in SUBSET BodyItems }
Replies == { [resp |-> [status |-> st, tag |-> r], data |-> b] :
                st \in Statuses, r \in { "r1", "r2" }, b \in Bodies }
ReqParams == { <<>>, << << <<"t">>, QStr(<<"a">>) >> >>,
               << << <<"t">>, QList(<<Str(<<"a">>), Str(<<"b">>)>>) >> >> }

ReqInit == req \in { [stage |-> "args", self |-> RestClient("t1"), method |-> m,
                      uri |-> <<"h", "/">>, path |-> p, body |-> b, headers |-> hd,
                      params |-> q, reply |-> [resp |-> NoResp, data |-> DNone],
                      out |-> ResourceError("none", DNone, 0, NoResp), sent |-> <<>>] :
                        m \in Methods, p \in { NoneArg, Str(<<"a">>) },
                        b \in { None, "payload" }, hd \in { None, "hdrs" },
                        q \in ReqParams }

\* one call of make_request, whatever the transport answers
MakeRequest ==
    /\ req.stage = "args"
    /\ \E reply \in Replies :
         LET r == make_request(req.self, req.method, req.uri, req.path, req.body,
                               req.headers, req.params, reply)
         IN  req' = [req EXCEPT !.stage = "done",
                                !.reply = IF r.sent = <<>> THEN req.reply ELSE reply,
                                !.out = r.out, !.sent = r.sent]
    /\ UNCHANGED <<items, last, mu, resources, rlast, heap, hlast>>

----------------------------------------------------------------------------
(* RestClient.make_request: the claims *)

\* the four outcomes a transport response can lead to
ResponseKinds == { "ResourceResult", "ResourceNotFound", "Unauthorized", "RequestFailed" }

\* C3: for every transport response, make_request returns a ResourceResult of
\* the body, the status code and the raw response exactly when status < 400,
\* raises ResourceNotFound exactly when it is 404, Unauthorized exactly when it
\* is 401 or 403, RequestFailed for every other status >= 400, and the error
\* carries that status code and raw response.
C3_Classification ==
    (req.stage = "done" /\ req.sent /= <<>>) =>
        LET status == req.reply.resp.status
            out == req.out
        IN  /\ out.kind \in ResponseKinds
            /\ (out.kind = "ResourceResult") <=> (status < 400)
            /\ (out.kind = "ResourceNotFound") <=> (status = 404)
            /\ (out.kind = "Unauthorized") <=> (status \in { 401, 403 })
            /\ (out.kind = "RequestFailed") <=> (status >= 400 /\ status \notin { 401, 403, 404 })
            /\ out.code = status
            /\ out.response = req.reply.resp
            /\ (status < 400 /\ req.reply.data.t = "str") => out.message = req.reply.data
            /\ (status < 400 /\ req.reply.data.t = "dict") =>
                   out.message = DRepr(req.reply.data.d)

\* a 403 answered to a request: Unauthorized with the response's own code
C3_Witness ==
    /\ req.stage = "done"
    /\ req.sent /= <<>>
    /\ req.reply.resp.status = 403
    /\ req.out.kind = "Unauthorized"
    /\ req.out.response.tag = "r2"

\* the value of key in a dict body, None when the key is missing
Field(d, key) ==
    IF \E v \in { "not_found", "missing", "x" } : <<key, v>> \in d
    THEN [none |-> FALSE, s |-> CHOOSE v \in { "not_found", "missing", "x" } : <<key, v>> \in d]
    ELSE [none |-> TRUE, s |-> ""]

\* C4: with a status >= 400, a dict body makes the error's message the pair
\* (body['error'], body['reason']), a missing key giving None and no failure;
\* any other body is itself the message.
C4_ErrorPayload ==
    (req.stage = "done" /\ req.sent /= <<>> /\ req.reply.resp.status >= 400) =>
        LET data == req.reply.data
        IN  /\ req.out.kind \in ResponseKinds \ { "ResourceResult" }
            /\ IF data.t = "dict"
               THEN req.out.message = DTuple(<<Field(data.d, "error"), Field(data.d, "reason")>>)
               ELSE req.out.message = data

\* a 404 whose dict body has an error and no reason: the message is (error, None)
C4_Witness ==
    /\ req.stage = "done"
    /\ req.sent /= <<>>
    /\ req.reply.resp.status = 404
    /\ req.reply.data = DDict({ <<"error", "not_found">>, <<"other", "x">> })
    /\ req.out.message.tup = << [none |-> FALSE, s |-> "not_found"], [none |-> TRUE, s |-> ""] >>

----------------------------------------------------------------------------
(* Resource *)

\* Resource.__init__(self, uri, httpclient=None), called with the keyword
\* arguments kw (name, value pairs); a keyword it does not declare is a TypeError
Resource(uri, kw) ==
    IF \E a \in kw : a[1] /= "httpclient"
    THEN [exc |-> "TypeError", obj |-> [uri |-> <<>>, httpclient |-> None,
                                        client |-> RestClient(None)]]
    ELSE LET httpclient == IF \E a \in kw : a[1] = "httpclient"
                           THEN (CHOOSE a \in kw : a[1] = "httpclient")[2]
                           ELSE None
         IN  [exc |-> "none", obj |-> [uri |-> uri, httpclient |-> httpclient,
                                       client |-> RestClient(httpclient)]]

\* Resource.__call__(self, path): type(self)(make_uri(self.uri, path), http=self.httpclient)
call(self, path) ==
    LET u == make_uri(self.uri, <<path>>, <<>>)
    IN  IF u.exc /= "none" THEN [exc |-> u.exc, obj |-> self]
        ELSE Resource(u.val, { <<"http", self.httpclient>> })

\* Resource.update_uri(self, path): self.uri = make_uri(self.uri, path)
update_uri(self, path) ==
    LET u == make_uri(self.uri, <<path>>, <<>>)
    IN  IF u.exc /= "none" THEN [exc |-> u.exc, obj |-> self]
        ELSE [exc |-> "none", obj |-> [self EXCEPT !.uri = u.val]]

\* Resource.request(self, method, path, payload, headers, **params)
request(self, method, path, payload, headers, params, reply) ==
    make_request(self.client, method, self.uri, path, payload, headers, params, reply)

NoResult == [out |-> ResourceError("none", DNone, 0, NoResp), sent |-> <<>>]

\* the record of a Resource call: new is the position of the instance it returned
RCall(op, i, path, pre, exc, new, result) ==
    [op |-> op, i |-> i, path |-> path, pre |-> pre, exc |-> exc, new |-> new,
     result |-> result]

RIdle == RCall("init", 0, NoneArg, <<>>, "none", 0, NoResult)

ResPaths == { Str(<<"a">>), Str(<<"/", "b", "/">>) }
Transports == { "t1", "t2" }

\* Resource(uri, httpclient=t)
NewResource ==
    /\ Len(resources) < MaxRes
    /\ \E t \in Transports :
         LET r == Resource(<<"h", "/">>, { <<"httpclient", t>> })
         IN  /\ resources' = Append(resources, r.obj)
             /\ rlast' = RCall("new", 0, NoneArg, resources, r.exc, Len(resources) + 1, NoResult)
    /\ UNCHANGED <<items, last, mu, req, heap, hlast>>

\* res(path)
ResourceCall ==
    /\ \E i \in DOMAIN resources, path \in ResPaths :
         LET r == call(resources[i], path)
         IN  IF r.exc = "none"
             THEN /\ Len(resources) < MaxRes
                  /\ resources' = Append(resources, r.obj)
                  /\ rlast' = RCall("call", i, path, resources, "none", Len(resources) + 1, NoResult)
             ELSE /\ resources' = resources
                  /\ rlast' = RCall("call", i, path, resources, r.exc, 0, NoResult)
    /\ UNCHANGED <<items, last, mu, req, heap, hlast>>

\* res.update_uri(path)
UpdateUri ==
    /\ \E i \in DOMAIN resources, path \in ResPaths :
         LET r == update_uri(resources[i], path)
         IN  /\ Len(r.obj.uri) <= MaxUriLen
             /\ resources' = [resources EXCEPT ![i] = r.obj]
             /\ rlast' = RCall("update_uri", i, path, resources, r.exc, 0, NoResult)
    /\ UNCHANGED <<items, last, mu, req, heap, hlast>>

ResReplies == { [resp |-> [status |-> st, tag |-> "r1"], data |-> b] :
                   st \in { 200, 404, 500 },
                   b \in { DStr("hello"), DDict({ <<"error", "not_found">> }) } }

\* res.request(method, path, payload, headers, **params), and so get, head, post, put, delete
Request ==
    /\ \E i \in DOMAIN resources, m \in { "GET", "POST" }, path \in { NoneArg, Str(<<"a">>) },
          q \in { <<>>, << << <<"t">>, QList(<<Str(<<"a">>)>>) >> >> }, reply \in ResReplies :
         LET r == request(resources[i], m, path, None, None, q, reply)
         IN  /\ resources' = resources
             /\ rlast' = RCall("request", i, path, resources, "none", 0, r)
    /\ UNCHANGED <<items, last, mu, req, heap, hlast>>

----------------------------------------------------------------------------
(* Resource: the claims *)

\* C2: calling a Resource with a path returns a new instance whose uri is
\* make_uri(parent.uri, path) and whose transport is the parent's, every
\* instance that existed keeping its uri; update_uri(path) replaces the uri of
\* the instance it is called on with make_uri(uri, path) and changes no other.
C2_ChildAndRebase ==
    /\ rlast.op = "call" =>
          /\ rlast.exc = "none"
          /\ rlast.new = Len(rlast.pre) + 1
          /\ Len(resources) = Len(rlast.pre) + 1
          /\ resources[rlast.new].uri = make_uri(rlast.pre[rlast.i].uri, <<rlast.path>>, <<>>).val
          /\ resources[rlast.new].httpclient = rlast.pre[rlast.i].httpclient
          /\ \A j \in DOMAIN rlast.pre : resources[j] = rlast.pre[j]
    /\ rlast.op = "update_uri" =>
          /\ rlast.exc = "none"
          /\ resources = [rlast.pre EXCEPT ![rlast.i].uri =
                              make_uri(rlast.pre[rlast.i].uri, <<rlast.path>>, <<>>).val]

\* C20: every Resource.request invokes the transport of its instance exactly
\* once, whatever the status of the reply, with the uri make_uri builds from the
\* instance's uri, the path and the parameters, and leaves the uri and the
\* transport of every instance as they were.
C20_OneTransportCall ==
    rlast.op = "request" =>
        /\ Len(rlast.result.sent) = 1
        /\ rlast.result.sent[1].client = rlast.pre[rlast.i].client.httpclient
        /\ StemOf(make_uri(rlast.pre[rlast.i].uri, <<rlast.path>>, <<>>).val,
                  rlast.result.sent[1].uri)
        /\ resources = rlast.pre

HeapIdle == [cells |-> <<>>, lst |-> 0, view |-> 0, copy |-> 0]
HIdle == [op |-> "init", on |-> "none", pre |-> HeapIdle]
MuIdle == [stage |-> "idle"]
ReqIdle == [stage |-> "idle"]

\* MultiDict(): self._items = []
Init ==
    /\ items = <<>>
    /\ last = NoCall
    /\ mu = MuIdle
    /\ req = ReqIdle
    /\ resources = <<>>
    /\ rlast = RIdle
    /\ heap = HeapIdle
    /\ hlast = HIdle

Next ==
    \/ GetItem
    \/ SetItem
    \/ DelItem
    \/ Add
    \/ IGet
    \/ GetOne
    \/ GetAll
    \/ LenCall
    \/ Mixed
    \/ DictOfLists
    \/ KeysCall
    \/ ValuesCall
    \/ ItemsCall
    \/ Pop
    \/ IPop
    \/ PopItem
    \/ SetDefault
    \/ Extend
    \/ Update
    \/ Clear

Spec == Init /\ [][Next]_vars

\* make_uri on each of its arguments
InitUri ==
    /\ items = <<>>
    /\ last = NoCall
    /\ MuInit
    /\ req = ReqIdle
    /\ resources = <<>>
    /\ rlast = RIdle
    /\ heap = HeapIdle
    /\ hlast = HIdle

NextUri == MakeUri

SpecUri == InitUri /\ [][NextUri]_vars

\* make_request on each of its arguments and each reply of the transport
InitReq ==
    /\ items = <<>>
    /\ last = NoCall
    /\ mu = MuIdle
    /\ ReqInit
    /\ resources = <<>>
    /\ rlast = RIdle
    /\ heap = HeapIdle
    /\ hlast = HIdle

NextReq == MakeRequest

SpecReq == InitReq /\ [][NextReq]_vars

\* Resource instances: constructed, called, rebased and used for requests
InitRes ==
    /\ items = <<>>
    /\ last = NoCall
    /\ mu = MuIdle
    /\ req = ReqIdle
    /\ resources = <<>>
    /\ rlast = RIdle
    /\ heap = HeapIdle
    /\ hlast = HIdle

NextRes ==
    \/ NewResource
    \/ ResourceCall
    \/ UpdateUri
    \/ Request

SpecRes == InitRes /\ [][NextRes]_vars

\* a caller's list, a view on it and a copy of the view
InitHeap ==
    /\ items = <<>>
    /\ last = NoCall
    /\ mu = MuIdle
    /\ req = ReqIdle
    /\ resources = <<>>
    /\ rlast = RIdle
    /\ heap \in { [cells |-> <<l>>, lst |-> 1, view |-> 0, copy |-> 0] :
                    l \in SeqsUpTo(SrcPairs, MaxSrc) }
    /\ hlast = HIdle

NextHeap ==
    \/ ViewList
    \/ ListMutate
    \/ ViewMutate
    \/ Construct
    \/ CopyMutate

SpecHeap == InitHeap /\ [][NextHeap]_vars

====
